---- MODULE Spec2Model ----
(***************************************************************************)
(* A model of KubernetesStack (kubernetes_stack.py): the compilation of a  *)
(* list of stack entries into module descriptors (process_stack_modules),  *)
(* the output artifact (process_stack_outputs), the driver generate() and  *)
(* the variable artifact (prepare_input).                                  *)
(*                                                                         *)
(* Python values are modelled as follows.                                  *)
(*   dict with optional keys   a record / function; "k" \in DOMAIN d       *)
(*   ordered dict (params)     a sequence of <<key, value>> pairs          *)
(*   None or a value           the sequence <<>> or <<value>>              *)
(*   a file of TF_PATH         absent from / present in the tf_* variables *)
(*   a raised exception        err = [type |-> ..., msg |-> ...]           *)
(***************************************************************************)
EXTENDS Naturals, Sequences, FiniteSets, TLC

\* ---------------------------------------------------------------- bounds

MaxStacks == 2
MaxRuns == 2
MaxInputVars == 1
MaxEnvs == 2
MaxEnvVars == 1

VARIABLES
    stacks,                       \* self.stacks
    provider,                     \* self.provider
    output,                       \* self.output["output"]
    stack_config,                 \* self.stack_config
    is_stack_component,           \* self.is_stack_component
    pc,                           \* position inside generate()
    runs,                         \* calls of generate() so far
    i,                            \* 1-based position of the loop of line 50
    create_vpc_database_subnets,  \* the local of line 48
    err,                          \* the exception that left this call of generate()
    tf_stack,                     \* file name -> content, stack_<type>.tf.json
    tf_vpc,                       \* vpc.tf.json
    tf_output,                    \* output.tf.json
    tf_variable,                  \* variable.tf.json
    emitted,                      \* this run: the json_module dumped per entry
    lookups,                      \* this run: the _read_config_file calls
    wlog,                         \* this run: the files opened for writing
    prepared                      \* prepare_input() has returned

vars == <<stacks, provider, output, stack_config, is_stack_component, pc, runs,
          i, create_vpc_database_subnets, err, tf_stack, tf_vpc, tf_output,
          tf_variable, emitted, lookups, wlog, prepared>>

\* ------------------------------------------------------- python helpers

EmptyMap == [k \in {} |-> ""]

\* d.update(e): the keys of e win.
Update(d, e) == e @@ d

\* bool(value) of a str.
Truthy(value) == value /= ""

NoError == [type |-> "", msg |-> ""]
KeyError(msg) == [type |-> "KeyError", msg |-> msg]
TypeError(msg) == [type |-> "TypeError", msg |-> msg]

\* "${ %s }" % s
Interpolate(s) == "${ " \o s \o " }"

\* --------------------------------------------------- constructor inputs

Region == "eu-west-1"
AccountId == "1234"
StateFileName == "tfstate"
ActiveEnv == "dev"

Providers == {"aws", "gcp"}
Types == {"db", "k8s"}
Names == {"a", "b"}
ParamKeys == <<"db_subnet", "size">>
ParamValues == {"", "on"}

\* The params mappings: no key, one key with either value, or both keys in
\* the order of ParamKeys with the first one set.
ParamMaps ==
    {<<>>}
        \cup {<<<<ParamKeys[k], v>>>> : k \in 1..Len(ParamKeys), v \in ParamValues}
        \cup {<<<<ParamKeys[1], "on">>, <<ParamKeys[2], w>>>> : w \in ParamValues}

NamedBodies ==
    {[name |-> n] : n \in Names}
        \cup {[name |-> n, params |-> p] : n \in Names, p \in ParamMaps}

UnnamedBodies == {EmptyMap, [params |-> <<<<ParamKeys[2], "on">>>>]}

Entries ==
    {[stack_type |-> t, body |-> b] : t \in Types, b \in NamedBodies \cup UnnamedBodies}

SeqUpTo(S, n) == UNION {[1..k -> S] : k \in 0..n}

\* utils.constants.CREATE_VPC_DB_SUBNET
CREATE_VPC_DB_SUBNET == {"db_subnet"}

\* The application yaml files _read_config_file finds, by (stack_type, name).
ModuleRepo ==
    [db_a |->
        [inputs |-> <<
            [name |-> "db_subnet", user_facing |-> TRUE,
             default |-> "None", value |-> "var.db_subnet"],
            [name |-> "vpc_id", user_facing |-> FALSE,
             default |-> "None", value |-> "module.vpc.vpc_id"],
            [name |-> "size", user_facing |-> FALSE,
             default |-> "small", value |-> "var.size"]>>,
         outputs |-> <<
            [name |-> "endpoint", export |-> TRUE],
            [name |-> "port", export |-> FALSE],
            [name |-> "arn", export |-> TRUE]>>],
     db_b |->
        [inputs |-> <<
            [name |-> "size", user_facing |-> TRUE,
             default |-> "small", value |-> "var.size"],
            [name |-> "engine", user_facing |-> FALSE,
             default |-> "mysql", value |-> "var.engine"]>>],
     k8s_b |->
        [outputs |-> <<
            [name |-> "endpoint", export |-> TRUE],
            [name |-> "token", export |-> FALSE]>>]]

\* AbstractStack._read_config_file: the yaml of the application, or None.
ReadConfigFile(stack_type, application_name) ==
    LET key == stack_type \o "_" \o application_name IN
    IF key \in DOMAIN ModuleRepo THEN <<ModuleRepo[key]>> ELSE <<>>

\* ------------------------------------------- process_stack_modules body

\* line 65
Source(stack_type, name) ==
    "../modules/applications/" \o stack_type \o "/" \o name \o "/tf_module"

\* StackFile without the stack type.
StackFileFixed(stack_type) == "stack.tf.json"

\* lines 122-123
StackFile(stack_type) == "stack_" \o stack_type \o ".tf.json"

\* InputValue without the rewriting of the "None" sentinel.
InputValueLiteral(input) == input.default

\* lines 82-86
InputValue(input) ==
    IF input.default /= "None" THEN input.default ELSE Interpolate(input.value)

\* lines 76-88: the attributes the non user facing inputs add.
RECURSIVE Inputs(_, _)
Inputs(inputs, acc) ==
    IF inputs = <<>> THEN acc
    ELSE LET input == Head(inputs) IN
         Inputs(Tail(inputs),
                IF ~input.user_facing
                THEN Update(acc, input.name :> InputValue(input))
                ELSE acc)

\* OutputVal without the owning module's name.
OutputValNoModule(name, output_name) == Interpolate("module." \o output_name)

\* line 93
OutputVal(name, output_name) == Interpolate("module." \o name \o "." \o output_name)

\* lines 91-97: self.output["output"] after the outputs of one application.
RECURSIVE Outputs(_, _, _)
Outputs(name, outputs, acc) ==
    IF outputs = <<>> THEN acc
    ELSE LET out == Head(outputs) IN
         Outputs(name, Tail(outputs),
                 IF out.export
                 THEN Append(acc, [name |-> out.name,
                                   value |-> OutputVal(name, out.name)])
                 ELSE acc)

\* UserFacing without the visibility check.
UserFacingAlways(input) == TRUE

\* line 108
UserFacing(input) == input.user_facing

\* ParamUpdate taking the schema's default for the supplied value.
ParamUpdateDefault(key, value, input) == key :> input.default

\* line 109
ParamUpdate(key, value, input) == key :> value

\* Triggers without the truthiness test.
TriggersAnyValue(key, value) == key \in CREATE_VPC_DB_SUBNET

\* line 116
Triggers(key, value) == key \in CREATE_VPC_DB_SUBNET /\ Truthy(value)

\* lines 106-119: one param against the inputs; acc = [params, flag, err].
RECURSIVE MatchInputs(_, _, _, _)
MatchInputs(key, value, inputs, acc) ==
    IF inputs = <<>> THEN acc
    ELSE LET input == Head(inputs) IN
         IF key = input.name
         THEN IF UserFacing(input)
              THEN MatchInputs(key, value, Tail(inputs),
                       [acc EXCEPT !.params = Update(@, ParamUpdate(key, value, input)),
                                   !.flag = @ \/ Triggers(key, value)])
              ELSE [acc EXCEPT !.err =
                        KeyError(key \o " is not a user facing parameter")]
         ELSE MatchInputs(key, value, Tail(inputs), acc)

\* lines 105-119: the params in their order, until one raises.
RECURSIVE Params(_, _, _)
Params(params, application_config, acc) ==
    IF params = <<>> THEN acc
    ELSE IF application_config = <<>>
    THEN [acc EXCEPT !.err = TypeError("'NoneType' object is not subscriptable")]
    ELSE IF "inputs" \notin DOMAIN application_config[1]
    THEN [acc EXCEPT !.err = KeyError("inputs")]
    ELSE LET r == MatchInputs(params[1][1], params[1][2],
                              application_config[1].inputs, acc) IN
         IF r.err /= NoError THEN r ELSE Params(Tail(params), application_config, r)

\* lines 59-120 for an entry that has a name. st = [flag, output, lookups].
Resolve(stack_type, name, body, st) ==
    LET application_config == ReadConfigFile(stack_type, name)
        source == "source" :> Source(stack_type, name)
        withInputs ==
            IF application_config /= <<>> /\ "inputs" \in DOMAIN application_config[1]
            THEN Inputs(application_config[1].inputs, source)
            ELSE source
        out ==
            IF application_config /= <<>> /\ "outputs" \in DOMAIN application_config[1]
            THEN Outputs(name, application_config[1].outputs, st.output)
            ELSE st.output
        p == IF "params" \in DOMAIN body
             THEN Params(body.params, application_config,
                         [params |-> EmptyMap, flag |-> st.flag, err |-> NoError])
             ELSE [params |-> EmptyMap, flag |-> st.flag, err |-> NoError]
    IN  [err |-> p.err,
         flag |-> p.flag,
         output |-> out,
         lookups |-> Append(st.lookups, <<stack_type, name>>),
         json_module |-> [name |-> name, attrs |-> Update(withInputs, p.params)]]

\* MissingName falling back to the stack type as the application name.
MissingNameAsType(module, st) ==
    Resolve(module.stack_type, module.stack_type, module.body, st)

\* lines 56-57
MissingName(module, st) ==
    [err |-> KeyError("No application assigned to the stack: " \o module.stack_type),
     flag |-> st.flag,
     output |-> st.output,
     lookups |-> st.lookups,
     json_module |-> [name |-> "", attrs |-> EmptyMap]]

\* lines 51-120: one iteration of the loop, up to the dump.
ModuleBody(module, st) ==
    IF "name" \in DOMAIN module.body
    THEN Resolve(module.stack_type, module.body.name, module.body, st)
    ELSE MissingName(module, st)

\* Raised with the exception swallowed.
RaisedSwallowed(r) == FALSE

\* a raise leaves the loop and generate() (lines 57, 119)
Raised(r) == r.err /= NoError

\* lines 129-135
VpcModule(flag) ==
    [name |-> "vpc",
     attrs |-> ("source" :> "../modules/cloud/aws/vpc")
                   @@ ("create_database_subnets" :> flag)]

\* line 128
InjectsVpc(p) == p = "aws"

\* lines 165-177
FixedOutputs ==
    <<[name |-> "state_storage", value |-> StateFileName],
      [name |-> "providers",
       value |-> [aws |-> [region |-> Region, account_id |-> AccountId]]]>>

\* ------------------------------------------------------- prepare_input

VarNames == {"region", "x"}
EnvNames == {"dev", "default", "prod"}
EnvVarKeys == {"region", "y"}

InputVariables ==
    {[name |-> n] : n \in VarNames}
        \cup {[name |-> n, default |-> "d"] : n \in VarNames}

\* The variables mappings of an environment: distinct keys, in any order.
EnvVarMaps ==
    {m \in SeqUpTo(EnvVarKeys \X {"v"}, MaxEnvVars) :
        \A a, b \in 1..Len(m) : m[a][1] = m[b][1] => a = b}

Environments ==
    {[name |-> n] : n \in EnvNames}
        \cup {[name |-> n, variables |-> m] : n \in EnvNames, m \in EnvVarMaps}

StackConfigs ==
    {EmptyMap}
        \cup {[input_variables |-> iv] : iv \in SeqUpTo(InputVariables, MaxInputVars)}
        \cup {[environments |-> e] : e \in SeqUpTo(Environments, MaxEnvs)}
        \cup {[input_variables |-> iv, environments |-> e] :
                iv \in SeqUpTo(InputVariables, MaxInputVars),
                e \in SeqUpTo(Environments, MaxEnvs)}

\* lines 184-190
CommonServiceInput ==
    <<[name |-> "region", body |-> [type |-> "string", default |-> Region]],
      [name |-> "account_id", body |-> [type |-> "string", default |-> AccountId]]>>

\* lines 192-199
RECURSIVE UserInput(_)
UserInput(input_variables) ==
    IF input_variables = <<>> THEN <<>>
    ELSE LET v == Head(input_variables) IN
         <<[name |-> v.name,
            body |-> IF "default" \in DOMAIN v
                     THEN [type |-> "string", default |-> v.default]
                     ELSE [type |-> "string"]]>>
             \o UserInput(Tail(input_variables))

\* AbstractStack._is_env_match: the exact name, or the "default" fallback.
IsEnvMatch(env_name) == env_name = ActiveEnv \/ env_name = "default"

\* lines 207-217
EnvVariables(variables) ==
    [k \in 1..Len(variables) |->
        [name |-> variables[k][1],
         body |-> [type |-> "string", default |-> variables[k][2]]]]

RECURSIVE ScanEnvironments(_)

\* AfterMatch without the break.
AfterMatchContinue(rest) == ScanEnvironments(rest)

\* line 218: the break leaves the environments after the match unread.
AfterMatch(rest) == <<>>

\* lines 204-218
ScanEnvironments(environments) ==
    IF environments = <<>> THEN <<>>
    ELSE LET env == Head(environments) IN
         IF IsEnvMatch(env.name)
         THEN (IF "variables" \in DOMAIN env THEN EnvVariables(env.variables) ELSE <<>>)
                  \o AfterMatch(Tail(environments))
         ELSE ScanEnvironments(Tail(environments))

\* lines 201-219
DefaultConfigInput(config) ==
    IF "environments" \in DOMAIN config
    THEN ScanEnvironments(config.environments)
    ELSE <<>>

\* lines 223-228
VariableJson(config, component) ==
    (IF component THEN CommonServiceInput ELSE <<>>)
        \o UserInput(config.input_variables)
        \o DefaultConfigInput(config)

\* ------------------------------------------------------------- actions

TypeOK ==
    /\ pc \in {"idle", "modules", "outputs", "done", "failed"}
    /\ runs \in 0..MaxRuns
    /\ i \in 1..(Len(stacks) + 1)
    /\ create_vpc_database_subnets \in BOOLEAN
    /\ Len(tf_vpc) <= 1 /\ Len(tf_output) <= 1 /\ Len(tf_variable) <= 1

InitRun ==
    /\ output = <<>>
    /\ pc = "idle"
    /\ runs = 0
    /\ i = 1
    /\ create_vpc_database_subnets = FALSE
    /\ err = NoError
    /\ tf_stack = EmptyMap
    /\ tf_vpc = <<>>
    /\ tf_output = <<>>
    /\ tf_variable = <<>>
    /\ emitted = <<>>
    /\ lookups = <<>>
    /\ wlog = <<>>
    /\ prepared = FALSE

Init ==
    /\ stacks \in SeqUpTo(Entries, MaxStacks)
    /\ provider \in Providers
    /\ stack_config = EmptyMap
    /\ is_stack_component = FALSE
    /\ InitRun

\* generate(), lines 237-239 up to line 48. Nothing guards the call: it may
\* follow a call that returned or one that raised, on the same object, and
\* self.output is kept from one call to the next.
Generate ==
    /\ pc \in {"idle", "done", "failed"}
    /\ runs < MaxRuns
    /\ runs' = runs + 1
    /\ pc' = "modules"
    /\ i' = 1
    /\ create_vpc_database_subnets' = FALSE
    /\ err' = NoError
    /\ emitted' = <<>>
    /\ lookups' = <<>>
    /\ wlog' = <<>>
    /\ UNCHANGED <<stacks, provider, output, stack_config, is_stack_component,
                   tf_stack, tf_vpc, tf_output, tf_variable, prepared>>

\* One iteration of the loop of lines 50-125.
ProcessModule ==
    /\ pc = "modules"
    /\ i <= Len(stacks)
    /\ LET module == stacks[i]
           r == ModuleBody(module, [flag |-> create_vpc_database_subnets,
                                    output |-> output,
                                    lookups |-> lookups])
       IN  /\ output' = r.output
           /\ lookups' = r.lookups
           /\ err' = r.err
           /\ IF Raised(r)
              THEN /\ pc' = "failed"
                   /\ UNCHANGED <<i, create_vpc_database_subnets, tf_stack,
                                  emitted, wlog>>
              ELSE /\ pc' = "modules"
                   /\ i' = i + 1
                   /\ create_vpc_database_subnets' = r.flag
                   /\ tf_stack' = Update(tf_stack,
                                         StackFile(module.stack_type) :> r.json_module)
                   /\ emitted' = Append(emitted, r.json_module)
                   /\ wlog' = Append(wlog, StackFile(module.stack_type))
    /\ UNCHANGED <<stacks, provider, stack_config, is_stack_component, runs,
                   tf_vpc, tf_output, tf_variable, prepared>>

\* lines 127-140, after the loop.
InjectVpc ==
    /\ pc = "modules"
    /\ i > Len(stacks)
    /\ pc' = "outputs"
    /\ IF InjectsVpc(provider)
       THEN /\ tf_vpc' = <<VpcModule(create_vpc_database_subnets)>>
            /\ wlog' = Append(wlog, "vpc.tf.json")
       ELSE UNCHANGED <<tf_vpc, wlog>>
    /\ UNCHANGED <<stacks, provider, output, stack_config, is_stack_component, runs,
                   i, create_vpc_database_subnets, err, tf_stack, tf_output,
                   tf_variable, emitted, lookups, prepared>>

\* process_stack_outputs, lines 164-179.
ProcessStackOutputs ==
    /\ pc = "outputs"
    /\ pc' = "done"
    /\ output' = output \o FixedOutputs
    /\ tf_output' = <<output'>>
    /\ wlog' = Append(wlog, "output.tf.json")
    /\ UNCHANGED <<stacks, provider, stack_config, is_stack_component, runs, i,
                   create_vpc_database_subnets, err, tf_stack, tf_vpc, tf_variable,
                   emitted, lookups, prepared>>

Next == Generate \/ ProcessModule \/ InjectVpc \/ ProcessStackOutputs

Spec == Init /\ [][Next]_vars


\* prepare_input, lines 221-233.
PrepareInput ==
    /\ prepared' = TRUE
    /\ IF "input_variables" \in DOMAIN stack_config
       THEN tf_variable' = <<VariableJson(stack_config, is_stack_component)>>
       ELSE UNCHANGED tf_variable
    /\ UNCHANGED <<stacks, provider, output, stack_config, is_stack_component, pc,
                   runs, i, create_vpc_database_subnets, err, tf_stack, tf_vpc,
                   tf_output, emitted, lookups, wlog>>

InitInput ==
    /\ stacks = <<>>
    /\ provider = "aws"
    /\ stack_config \in StackConfigs
    /\ is_stack_component \in BOOLEAN
    /\ InitRun

NextInput == PrepareInput

SpecInput == InitInput /\ [][NextInput]_vars

\* ------------------------------------------------- what the entries declare

Named(j) == "name" \in DOMAIN stacks[j].body

ParamsOf(j) == IF "params" \in DOMAIN stacks[j].body THEN stacks[j].body.params ELSE <<>>

\* The schema the Module Schema Reader holds for entry j (<<>>: none).
ConfigOf(j) == ReadConfigFile(stacks[j].stack_type, stacks[j].body.name)

InputsOf(j) ==
    IF Named(j) /\ ConfigOf(j) /= <<>> /\ "inputs" \in DOMAIN ConfigOf(j)[1]
    THEN ConfigOf(j)[1].inputs
    ELSE <<>>

OutputsOf(j) ==
    IF Named(j) /\ ConfigOf(j) /= <<>> /\ "outputs" \in DOMAIN ConfigOf(j)[1]
    THEN ConfigOf(j)[1].outputs
    ELSE <<>>

\* Entry j supplies a parameter that names an input of the given visibility.
SuppliesInput(j, p, visible) ==
    \E k \in 1..Len(InputsOf(j)) :
        /\ InputsOf(j)[k].name = ParamsOf(j)[p][1]
        /\ InputsOf(j)[k].user_facing = visible

\* process_stack_modules has returned in the current call of generate().
Completed == pc \in {"outputs", "done"}

\* ------------------------------------------------------------------ C1

SetsSubnetKey(j) ==
    \E p \in 1..Len(ParamsOf(j)) :
        /\ ParamsOf(j)[p][1] \in CREATE_VPC_DB_SUBNET
        /\ Truthy(ParamsOf(j)[p][2])

AcceptedSubnetKey(j) ==
    \E p \in 1..Len(ParamsOf(j)) :
        /\ ParamsOf(j)[p][1] \in CREATE_VPC_DB_SUBNET
        /\ Truthy(ParamsOf(j)[p][2])
        /\ SuppliesInput(j, p, TRUE)

VpcSubnets == tf_vpc[1].attrs["create_database_subnets"]

\* C1 as stated: after process_stack_modules completes with provider AWS, the
\* vpc descriptor's create_database_subnets is true exactly when some stack
\* entry sets a key of CREATE_VPC_DB_SUBNET to a truthy value in its params;
\* with another provider no vpc descriptor is written.
C1_AsStated ==
    Completed =>
        IF provider = "aws"
        THEN /\ tf_vpc /= <<>>
             /\ VpcSubnets = (\E j \in 1..Len(stacks) : SetsSubnetKey(j))
        ELSE tf_vpc = <<>>

\* C1 amended: create_database_subnets is true exactly when some stack entry
\* sets a key of CREATE_VPC_DB_SUBNET, which names a user facing input of the
\* entry's module schema, to a truthy value; a subnet key the schema does not
\* declare is dropped and triggers nothing. With another provider no vpc
\* descriptor is written.
C1_SubnetSignal ==
    Completed =>
        IF provider = "aws"
        THEN /\ tf_vpc /= <<>>
             /\ tf_vpc[1].name = "vpc"
             /\ VpcSubnets = (\E j \in 1..Len(stacks) : AcceptedSubnetKey(j))
        ELSE tf_vpc = <<>>

\* The signal of the first of two entries survives the second, which sets none.
C1_Witness ==
    /\ Completed /\ provider = "aws" /\ Len(stacks) = 2
    /\ AcceptedSubnetKey(1) /\ ~SetsSubnetKey(2)
    /\ VpcSubnets = TRUE

\* ------------------------------------------------------------------ C2

\* No two entries declare the same (stack_type, name).
DistinctModules ==
    \A j, k \in 1..Len(stacks) :
        (stacks[j].stack_type = stacks[k].stack_type
            /\ stacks[j].body.name = stacks[k].body.name) => j = k

\* C2 as stated: after a successful run every stack entry has its own module
\* descriptor artifact, and the module block dumped for each entry is the
\* content of some artifact, also when entries share a stack type.
C2_AsStated ==
    (pc = "done" /\ DistinctModules) =>
        /\ Cardinality(DOMAIN tf_stack) = Len(stacks)
        /\ \A j \in 1..Len(stacks) :
               \E f \in DOMAIN tf_stack : tf_stack[f] = emitted[j]

\* No entry after j has the stack type of entry j.
LastOfType(j) ==
    \A k \in (j + 1)..Len(stacks) : stacks[k].stack_type /= stacks[j].stack_type

\* C2 amended: after a successful run a module block (name, source, merged
\* attributes) was dumped for every stack entry, and one artifact
\* stack_<stack_type>.tf.json exists per distinct stack type; it holds the
\* block of the last entry of that type, an earlier entry of the same type
\* having been overwritten. Every entry's block is in an artifact when the
\* stack types are pairwise distinct.
C2_ArtifactPerStackType ==
    pc = "done" =>
        /\ Len(emitted) = Len(stacks)
        /\ DOMAIN tf_stack =
               {"stack_" \o stacks[j].stack_type \o ".tf.json" : j \in 1..Len(stacks)}
        /\ \A j \in 1..Len(stacks) :
               /\ emitted[j].name = stacks[j].body.name
               /\ emitted[j].attrs["source"] =
                      "../modules/applications/" \o stacks[j].stack_type \o "/"
                          \o stacks[j].body.name \o "/tf_module"
               /\ LastOfType(j) =>
                      tf_stack["stack_" \o stacks[j].stack_type \o ".tf.json"]
                          = emitted[j]

\* Two entries of one stack type with different names: one file, the second's.
C2_Witness ==
    /\ pc = "done" /\ Len(stacks) = 2
    /\ stacks[1].stack_type = stacks[2].stack_type
    /\ stacks[1].body.name /= stacks[2].body.name
    /\ Cardinality(DOMAIN tf_stack) = 1
    /\ \A f \in DOMAIN tf_stack : tf_stack[f] = emitted[2] /\ tf_stack[f] /= emitted[1]

\* ------------------------------------------------------------------ C3

Exported(out) == out.export

\* The references entry j owes the output artifact, in schema order.
RefsOf(j) ==
    LET exported == SelectSeq(OutputsOf(j), Exported) IN
    [k \in 1..Len(exported) |->
        [name |-> exported[k].name,
         value |-> "${ module." \o stacks[j].body.name \o "."
                       \o exported[k].name \o " }"]]

RECURSIVE AllRefs(_)
AllRefs(n) == IF n = 0 THEN <<>> ELSE AllRefs(n - 1) \o RefsOf(n)

IsReference(o) == o.name \notin {"state_storage", "providers"}

\* C3 as stated: the output artifact of any call of generate() lists exactly
\* one reference per exported output, in stack order then schema order.
C3_AsStated ==
    pc = "done" =>
        /\ tf_output /= <<>>
        /\ SelectSeq(tf_output[1], IsReference) = AllRefs(Len(stacks))

\* C3 amended: the output artifact of the first call of generate() on a newly
\* constructed compiler lists exactly one reference per exported output, in
\* stack order then schema order, each "${ module.<name>.<output> }". (A later
\* call appends to the same self.output and lists every reference again.)
C3_FirstRunOutputs ==
    (pc = "done" /\ runs = 1) =>
        /\ tf_output /= <<>>
        /\ SelectSeq(tf_output[1], IsReference) = AllRefs(Len(stacks))

\* Two modules with exported and unexported outputs, one name exported by both.
C3_Witness ==
    /\ pc = "done" /\ runs = 1 /\ Len(stacks) = 2
    /\ Len(RefsOf(1)) = 2 /\ Len(RefsOf(2)) = 1
    /\ Len(tf_output[1]) = 5

\* ------------------------------------------------------------------ C4

NonUserFacingParam(j) ==
    \E p \in 1..Len(ParamsOf(j)) : SuppliesInput(j, p, FALSE)

\* C4: an entry that supplies a parameter naming a non user facing input stops
\* the run with the configuration error "<key> is not a user facing parameter";
\* the loop never passes it, and nothing is dumped or opened for it, so no
\* descriptor carries the caller's value for that input.
C4_NonUserFacingRejected ==
    \A j \in 1..Len(stacks) :
        NonUserFacingParam(j) =>
            /\ i <= j
            /\ Len(emitted) < j
            /\ Len(wlog) < j
            /\ (i = j => pc \in {"idle", "modules", "failed"})
            /\ (i = j /\ pc = "failed" =>
                    \E p \in 1..Len(ParamsOf(j)) :
                        /\ SuppliesInput(j, p, FALSE)
                        /\ err = KeyError(ParamsOf(j)[p][1]
                                          \o " is not a user facing parameter"))

C4_Witness ==
    /\ pc = "failed" /\ i = 2 /\ NonUserFacingParam(2)
    /\ Len(emitted) = 1 /\ err.type = "KeyError"

\* ------------------------------------------------------------------ C5

\* C5: an entry without a name stops the run with a configuration error; the
\* schema reader is not called for it and nothing is dumped for it.
C5_MissingNameRejected ==
    \A j \in 1..Len(stacks) :
        ~Named(j) =>
            /\ i <= j
            /\ Len(emitted) < j
            /\ Len(lookups) < j
            /\ Len(wlog) < j
            /\ (i = j => pc \in {"idle", "modules", "failed"})
            /\ (i = j /\ pc = "failed" =>
                    /\ err = KeyError("No application assigned to the stack: "
                                      \o stacks[j].stack_type)
                    /\ Len(lookups) = j - 1)

C5_Witness ==
    /\ pc = "failed" /\ i = 2 /\ ~Named(2)
    /\ Len(lookups) = 1 /\ Len(emitted) = 1

\* ------------------------------------------------------------------ C6

\* The last entry before position n that wrote file f.
LastWriter(f, n) ==
    CHOOSE k \in 1..(n - 1) :
        /\ StackFile(stacks[k].stack_type) = f
        /\ \A m \in (k + 1)..(n - 1) : StackFile(stacks[m].stack_type) /= f

\* C6: when entry i raises, generate() is left there: the files on disk are
\* those the entries before i wrote, with the content they wrote; nothing was
\* opened for entry i or a later one, and neither vpc.tf.json nor
\* output.tf.json was written.
C6_HaltsAtFirstFatal ==
    err /= NoError =>
        /\ pc = "failed"
        /\ i \in 1..Len(stacks)
        /\ Len(emitted) = i - 1
        /\ wlog = [k \in 1..(i - 1) |-> StackFile(stacks[k].stack_type)]
        /\ DOMAIN tf_stack = {StackFile(stacks[k].stack_type) : k \in 1..(i - 1)}
        /\ \A f \in DOMAIN tf_stack : tf_stack[f] = emitted[LastWriter(f, i)]
        /\ tf_vpc = <<>>
        /\ tf_output = <<>>

C6_Witness ==
    /\ err /= NoError /\ pc = "failed" /\ i = 2 /\ provider = "aws"
    /\ DOMAIN tf_stack = {StackFile(stacks[1].stack_type)}

\* ------------------------------------------------------------------ C7

\* C7: every parameter an emitted entry supplies for a user facing input is in
\* its descriptor under its key with exactly the supplied value.
C7_UserFacingPassthrough ==
    \A j \in 1..Len(emitted) :
        \A p \in 1..Len(ParamsOf(j)) :
            SuppliesInput(j, p, TRUE) =>
                /\ ParamsOf(j)[p][1] \in DOMAIN emitted[j].attrs
                /\ emitted[j].attrs[ParamsOf(j)[p][1]] = ParamsOf(j)[p][2]

\* A falsy value for an input whose default is "small", beside an internal input.
C7_Witness ==
    \E j \in 1..Len(emitted) :
        /\ ParamsOf(j) = <<<<"db_subnet", "on">>, <<"size", "">>>>
        /\ "engine" \in DOMAIN emitted[j].attrs
        /\ emitted[j].attrs["size"] = ""
        /\ tf_stack[StackFile(stacks[j].stack_type)] = emitted[j]

\* ------------------------------------------------------------------ C8

\* C8: every non user facing input of an emitted entry's schema is in its
\* descriptor under its own name; the value is the default, or the placeholder
\* "${ <value field> }" when the default is the string "None".
C8_InternalInputs ==
    \A j \in 1..Len(emitted) :
        \A k \in 1..Len(InputsOf(j)) :
            LET input == InputsOf(j)[k] IN
            ~input.user_facing =>
                /\ input.name \in DOMAIN emitted[j].attrs
                /\ emitted[j].attrs[input.name] /= "None"
                /\ emitted[j].attrs[input.name] =
                       IF input.default = "None"
                       THEN "${ " \o input.value \o " }"
                       ELSE input.default

C8_Witness ==
    \E j \in 1..Len(emitted) :
        /\ emitted[j].name = "a"
        /\ DOMAIN emitted[j].attrs = {"source", "vpc_id", "size"}
        /\ emitted[j].attrs["vpc_id"] = "${ module.vpc.vpc_id }"
        /\ emitted[j].attrs["size"] = "small"

\* ------------------------------------------------------------------ C9

FixedVariables ==
    IF is_stack_component
    THEN <<[name |-> "region", body |-> [type |-> "string", default |-> Region]],
           [name |-> "account_id",
            body |-> [type |-> "string", default |-> AccountId]]>>
    ELSE <<>>

DeclaredVariables ==
    LET iv == stack_config.input_variables IN
    [k \in 1..Len(iv) |->
        [name |-> iv[k].name,
         body |-> IF "default" \in DOMAIN iv[k]
                  THEN [type |-> "string", default |-> iv[k].default]
                  ELSE [type |-> "string"]]]

MatchingEnvs ==
    IF "environments" \in DOMAIN stack_config
    THEN {k \in 1..Len(stack_config.environments) :
              IsEnvMatch(stack_config.environments[k].name)}
    ELSE {}

FirstMatchVariables ==
    IF MatchingEnvs = {} THEN <<>>
    ELSE LET first == CHOOSE k \in MatchingEnvs : \A m \in MatchingEnvs : k <= m
             env == stack_config.environments[first]
             vs == IF "variables" \in DOMAIN env THEN env.variables ELSE <<>>
         IN  [k \in 1..Len(vs) |->
                 [name |-> vs[k][1],
                  body |-> [type |-> "string", default |-> vs[k][2]]]]

\* C9: with input_variables declared, prepare_input writes region and
\* account_id (stack components only), then the declared input variables in
\* order, then the variables of the first matching environment and of no later
\* one, duplicates kept; with input_variables not declared it writes nothing.
C9_VariableSequence ==
    /\ ~prepared => tf_variable = <<>>
    /\ prepared =>
           IF "input_variables" \in DOMAIN stack_config
           THEN tf_variable =
                    <<FixedVariables \o DeclaredVariables \o FirstMatchVariables>>
           ELSE tf_variable = <<>>

\* A stack component, a declared variable named like a fixed one, and two
\* matching environments of which the second one's variables are left out.
C9_Witness ==
    /\ prepared /\ is_stack_component
    /\ "input_variables" \in DOMAIN stack_config
    /\ Len(stack_config.input_variables) = 1
    /\ stack_config.input_variables[1].name = "region"
    /\ Cardinality(MatchingEnvs) = 2
    /\ \A k \in MatchingEnvs :
           /\ "variables" \in DOMAIN stack_config.environments[k]
           /\ Len(stack_config.environments[k].variables) = 1
    /\ stack_config.environments[1].variables[1][1] = "region"
    /\ stack_config.environments[2].variables[1][1] = "y"
    /\ Len(tf_variable[1]) = 4

\* ----------------------------------------------------------------- C10

\* C10 as stated: when the schema reader returns none for an entry, declared
\* params make the run fail there with a configuration error (the KeyError of
\* lines 57 and 119) and nothing is dumped for the entry; without params the
\* descriptor holds the source attribute alone and the entry adds nothing to
\* the output set.
C10_AsStated ==
    \A j \in 1..Len(stacks) :
        (Named(j) /\ ConfigOf(j) = <<>>) =>
            IF ParamsOf(j) /= <<>>
            THEN /\ i <= j
                 /\ Len(emitted) < j
                 /\ (i = j /\ pc = "failed" => err.type = "KeyError")
            ELSE /\ j <= Len(emitted) => DOMAIN emitted[j].attrs = {"source"}
                 /\ (runs = 1 /\ pc = "modules" /\ i = j + 1) =>
                        output = AllRefs(j - 1)

====
